---- MODULE Spec2Model ----
(***************************************************************************)
(* Model of adapter/pkg/messagelisteners/notificationListener.go: the      *)
(* consumption loop handleNotification, the five category handlers and     *)
(* the package-level catalog collections they mutate.                      *)
(*                                                                         *)
(* Strings that the code inspects (event types, API identifiers, policy    *)
(* types) are sequences of one-character strings, so that                  *)
(* strings.Contains and strings.EqualFold are computed character by        *)
(* character.  Strings that are only copied are plain TLA+ strings.        *)
(***************************************************************************)
EXTENDS Integers, Sequences, FiniteSets, TLC

(***************************************************************************)
(* Bounds of the model.                                                    *)
(***************************************************************************)
MaxMsgs == 3        \* deliveries published in a run of Spec
MaxAPIMsgs == 4     \* deliveries published in a run of SpecAPI
MaxEventMsgs == 3   \* deliveries published in a run of SpecEvents
MaxQueue == 1       \* deliveries waiting in the channel
MaxTimeStamp == 1   \* timestamps range over -1 .. MaxTimeStamp
MaxMalformedMsgs == 3  \* deliveries published in a run of SpecMalformed

(***************************************************************************)
(* strings.EqualFold and strings.Contains                                  *)
(***************************************************************************)
LowerCase == <<"a","b","c","d","e","f","g","h","i","j","k","l","m",
               "n","o","p","q","r","s","t","u","v","w","x","y","z">>
UpperCase == <<"A","B","C","D","E","F","G","H","I","J","K","L","M",
               "N","O","P","Q","R","S","T","U","V","W","X","Y","Z">>

FoldTable ==
    [c \in {LowerCase[i] : i \in 1..Len(LowerCase)} |->
        UpperCase[CHOOSE i \in 1..Len(LowerCase) : LowerCase[i] = c]]

\* simple case folding of one character
Fold(c) == IF c \in DOMAIN FoldTable THEN FoldTable[c] ELSE c

EqualFold(s, t) ==
    /\ Len(s) = Len(t)
    /\ \A i \in 1..Len(s) : Fold(s[i]) = Fold(t[i])

Contains(s, substr) ==
    \E i \in 0..(Len(s) - Len(substr)) : SubSeq(s, i + 1, i + Len(substr)) = substr

(***************************************************************************)
(* const ( ... )                                                           *)
(***************************************************************************)
apiEventType == <<"A","P","I">>
applicationEventType == <<"A","P","P","L","I","C","A","T","I","O","N">>
subscriptionEventType == <<"S","U","B","S","C","R","I","P","T","I","O","N","S">>
scopeEvenType == <<"S","C","O","P","E">>
removeAPIFromGateway ==
    <<"R","E","M","O","V","E","_","A","P","I","_","F","R","O","M","_",
      "G","A","T","E","W","A","Y">>
deployAPIToGateway ==
    <<"D","E","P","L","O","Y","_","A","P","I","_","I","N","_",
      "G","A","T","E","W","A","Y">>
applicationRegistration ==
    <<"A","P","P","L","I","C","A","T","I","O","N","_",
      "R","E","G","I","S","T","R","A","T","I","O","N","_","C","R","E","A","T","E">>
removeApplicationKeyMapping ==
    <<"R","E","M","O","V","E","_","A","P","P","L","I","C","A","T","I","O","N","_",
      "K","E","Y","M","A","P","P","I","N","G">>
policyCreate == <<"P","O","L","I","C","Y","_","C","R","E","A","T","E">>
policyUpdate == <<"P","O","L","I","C","Y","_","U","P","D","A","T","E">>
policyDelete == <<"P","O","L","I","C","Y","_","D","E","L","E","T","E">>

(***************************************************************************)
(* Byte strings and their decoding.                                        *)
(*                                                                         *)
(* A byte string is either a JSON object, [json |-> TRUE, obj |-> r] with  *)
(* r the record of the members it carries (named by the Go field they      *)
(* decode into), or bytes that are no JSON document, [json |-> FALSE].     *)
(* json.Unmarshal fills the fields the object carries and leaves the       *)
(* others, and every field of an undecodable input, at their zero value;   *)
(* its error is discarded by every caller.                                 *)
(***************************************************************************)
NotJSON == [json |-> FALSE]
Object(r) == [json |-> TRUE, obj |-> r]

Unmarshal(data, zero) ==
    IF data.json
    THEN [f \in DOMAIN zero |-> IF f \in DOMAIN data.obj THEN data.obj[f] ELSE zero[f]]
    ELSE zero

(***************************************************************************)
(* A base64 text is modelled by whether it is well formed and by the byte  *)
(* string it encodes.  The empty text is well formed and encodes no bytes. *)
(***************************************************************************)
Base64(bytes) == [valid |-> TRUE, bytes |-> bytes]
CorruptBase64 == [valid |-> FALSE, bytes |-> NotJSON]
EmptyString == [valid |-> TRUE, bytes |-> NotJSON]

\* the decoding with its error dropped
DecodeStringErrorDropped(s) ==
    IF s.valid THEN [err |-> FALSE, bytes |-> s.bytes]
    ELSE [err |-> FALSE, bytes |-> NotJSON]

\* base64.StdEncoding.DecodeString
DecodeString(s) ==
    IF s.valid THEN [err |-> FALSE, bytes |-> s.bytes]
    ELSE [err |-> TRUE, bytes |-> NotJSON]

(***************************************************************************)
(* Zero values of the event shapes the handlers decode into (the fields    *)
(* the handlers read).                                                     *)
(***************************************************************************)
ZeroEventNotification == [Event |-> EmptyString, EventType |-> <<>>]
ZeroEvent == [Type |-> <<>>, TimeStamp |-> 0, TenantDomain |-> ""]
ZeroAPIEvent ==
    [APIID |-> <<>>, APIProvider |-> "", APIName |-> "", APIVersion |-> "",
     APIContext |-> "", APIType |-> "", Event |-> ZeroEvent]
ZeroApplicationRegistrationEvent ==
    [ApplicationID |-> 0, ConsumerKey |-> "", KeyType |-> "", KeyManager |-> "",
     TenantDomain |-> "", TimeStamp |-> 0]
ZeroApplicationEvent ==
    [UUID |-> "", ApplicationID |-> 0, ApplicationName |-> "", Subscriber |-> "",
     ApplicationPolicy |-> "", TokenType |-> "", GroupID |-> "",
     TenantDomain |-> "", TimeStamp |-> 0]
ZeroSubscriptionEvent ==
    [SubscriptionID |-> 0, PolicyID |-> 0, APIID |-> 0, ApplicationID |-> 0,
     SubscriptionState |-> "", TenantID |-> 0, TenantDomain |-> "", TimeStamp |-> 0]
ZeroScopeEvent == [Name |-> "", DisplayName |-> "", ApplicationName |-> ""]
ZeroPolicyInfo ==
    [PolicyID |-> 0, PolicyName |-> "", QuotaType |-> "", PolicyType |-> <<>>]
ZeroSubscriptionPolicyEvent ==
    [PolicyID |-> 0, PolicyName |-> "", QuotaType |-> "",
     GraphQLMaxComplexity |-> 0, GraphQLMaxDepth |-> 0, RateLimitCount |-> 0,
     RateLimitTimeUnit |-> "", StopOnQuotaReach |-> FALSE,
     TenantDomain |-> "", TimeStamp |-> 0]

\* json.Unmarshal into an APIEvent: the inner event record is decoded in turn
UnmarshalAPIEvent(data) ==
    LET outer == Unmarshal(data, ZeroAPIEvent)
    IN  IF data.json /\ "Event" \in DOMAIN data.obj
        THEN [outer EXCEPT !.Event = Unmarshal(Object(data.obj.Event), ZeroEvent)]
        ELSE outer

(***************************************************************************)
(* State.                                                                  *)
(*   the package-level collections and timestamp maps (var ( ... ));       *)
(*   deliveries, closed  the delivery channel; nDelivered counts the       *)
(*                       deliveries the transport has put on it;           *)
(*   done, callerWaiting the completion channel: the values written to it, *)
(*                       and whether the caller is receiving from it;      *)
(*   pc, d, decodedByte, eventType  the position and the locals of         *)
(*                       handleNotification;                               *)
(*   acked               the delivery tags acknowledged by d.Ack, in order;*)
(*   processed           one entry per handler invocation: the delivery    *)
(*                       tag, the handler, its arguments, and APIList and  *)
(*                       APIListTimeStamp as the handler found them.       *)
(***************************************************************************)
VARIABLES SubList, AppKeyMappingList, APIList, ScopeList, AppPolicyList,
          SubPolicyList, ApplicationKeyMappingList, AppList,
          APIListTimeStamp, ApplicationListTimeStamp,
          deliveries, closed, nDelivered, done, callerWaiting,
          pc, d, decodedByte, eventType, acked, processed

collections == <<SubList, AppKeyMappingList, APIList, ScopeList, AppPolicyList,
                 SubPolicyList, ApplicationKeyMappingList, AppList>>
timeStampMaps == <<APIListTimeStamp, ApplicationListTimeStamp>>
transport == <<deliveries, closed, nDelivered, done, callerWaiting>>
locals == <<pc, d, decodedByte, eventType>>
vars == <<collections, timeStampMaps, transport, locals, acked, processed>>

\* a map with no entries
EmptyMap == [k \in {} |-> 0]
\* the loop variable outside an iteration
NoDelivery == [Tag |-> 0, Body |-> NotJSON]

Init ==
    /\ SubList = <<>>
    /\ AppKeyMappingList = <<>>
    /\ APIList = <<>>
    /\ ScopeList = <<>>
    /\ AppPolicyList = <<>>
    /\ SubPolicyList = <<>>
    /\ ApplicationKeyMappingList = <<>>
    /\ AppList = <<>>
    /\ APIListTimeStamp = EmptyMap
    /\ ApplicationListTimeStamp = EmptyMap
    /\ deliveries = <<>>
    /\ closed = FALSE
    /\ nDelivered = 0
    /\ done = <<>>
    /\ callerWaiting = FALSE
    /\ pc = "range"
    /\ d = NoDelivery
    /\ decodedByte = NotJSON
    /\ eventType = <<>>
    /\ acked = <<>>
    /\ processed = <<>>

(***************************************************************************)
(* handleAPIEvents                                                         *)
(***************************************************************************)
\* m[k] = v
MapSet(m, k, v) == [x \in (DOMAIN m) \cup {k} |-> IF x = k THEN v ELSE m[x]]

\* the scan storing the event's timestamp whether or not the map has other keys
TimeStampScanRecords(timeStampList, apiID, newTimeStamp) ==
    LET match == {k \in DOMAIN timeStampList : EqualFold(apiID, k)}
        olds  == IF match = {} THEN {0} ELSE {timeStampList[k] : k \in match}
    IN  {[oldTimeStamp |-> o,
          timeStamps |-> MapSet(timeStampList, apiID, newTimeStamp)] : o \in olds}

\* The range loop over the timestamp map: every key that does not fold-equal
\* the event's identifier stores newTimeStamp under the event's identifier in
\* the map being ranged over; a key that fold-equals it sets oldTimeStamp.
\* The iteration order of a map is unspecified, and an entry created during
\* the iteration may be produced or skipped, so the loop has a set of
\* outcomes: the oldTimeStamp of the last matching key produced, 0 when none.
TimeStampScan(timeStampList, apiID, newTimeStamp) ==
    LET match == {k \in DOMAIN timeStampList : EqualFold(apiID, k)}
        other == (DOMAIN timeStampList) \ match
        after == IF other = {} THEN timeStampList
                 ELSE MapSet(timeStampList, apiID, newTimeStamp)
        olds  == {timeStampList[k] : k \in match}
                   \cup (IF other = {} THEN {} ELSE {newTimeStamp})
                   \cup (IF match = {} THEN {0} ELSE {})
    IN  {[oldTimeStamp |-> o, timeStamps |-> after] : o \in olds}

\* resourcetypes.API{...} built from the event
NewAPI(apiEvent) ==
    [APIID |-> apiEvent.APIID, Provider |-> apiEvent.APIProvider,
     Name |-> apiEvent.APIName, Version |-> apiEvent.APIVersion,
     Context |-> apiEvent.APIContext, APIType |-> apiEvent.APIType,
     IsDefaultVersion |-> TRUE, TenantID |-> -1,
     TenantDomain |-> apiEvent.Event.TenantDomain,
     TimeStamp |-> apiEvent.Event.TimeStamp]

\* the removal loop without its break: every matching record is cut out
RemoveAPINoBreak(list, apiID) ==
    LET F[i \in 0..Len(list)] ==
            IF i = 0 THEN <<>>
            ELSE IF EqualFold(apiID, list[i].APIID) THEN F[i - 1]
                 ELSE Append(F[i - 1], list[i])
    IN  F[Len(list)]

\* the removal loop: the first record whose APIID fold-equals apiID is cut out
RemoveAPI(list, apiID) ==
    LET hits == {i \in 1..Len(list) : EqualFold(apiID, list[i].APIID)}
    IN  IF hits = {} THEN list
        ELSE LET i == CHOOSE j \in hits : \A h \in hits : j <= h
             IN  SubSeq(list, 1, i - 1) \o SubSeq(list, i + 1, Len(list))

\* the removal guard with <= in place of <
RemovalHonoredOrEqual(apiEvent, oldTimeStamp) ==
    /\ EqualFold(removeAPIFromGateway, apiEvent.Event.Type)
    /\ oldTimeStamp <= apiEvent.Event.TimeStamp

\* the removal guard
RemovalHonored(apiEvent, oldTimeStamp) ==
    /\ EqualFold(removeAPIFromGateway, apiEvent.Event.Type)
    /\ oldTimeStamp < apiEvent.Event.TimeStamp

\* the if / else if with a deploy that replaces a record of the same identifier
APIListAfterUpsert(list, apiEvent, oldTimeStamp) ==
    IF RemovalHonored(apiEvent, oldTimeStamp)
    THEN RemoveAPI(list, apiEvent.APIID)
    ELSE IF EqualFold(deployAPIToGateway, apiEvent.Event.Type)
         THEN Append(RemoveAPI(list, apiEvent.APIID), NewAPI(apiEvent))
         ELSE list

\* the if / else if over the event's subtype
APIListAfter(list, apiEvent, oldTimeStamp) ==
    IF RemovalHonored(apiEvent, oldTimeStamp)
    THEN RemoveAPI(list, apiEvent.APIID)
    ELSE IF EqualFold(deployAPIToGateway, apiEvent.Event.Type)
         THEN Append(list, NewAPI(apiEvent))
         ELSE list

handleAPIEvents(data, et) ==
    LET apiEvent == UnmarshalAPIEvent(data)
    IN  \E scan \in TimeStampScan(APIListTimeStamp, apiEvent.APIID,
                                  apiEvent.Event.TimeStamp) :
            /\ APIListTimeStamp' = scan.timeStamps
            /\ APIList' = APIListAfter(APIList, apiEvent, scan.oldTimeStamp)
            /\ UNCHANGED <<SubList, AppKeyMappingList, ScopeList, AppPolicyList,
                           SubPolicyList, ApplicationKeyMappingList, AppList,
                           ApplicationListTimeStamp>>

(***************************************************************************)
(* handleApplicationEvents                                                 *)
(***************************************************************************)
\* the test with the key-mapping removal left out
IsKeyMappingEventRegistrationOnly(et) == EqualFold(applicationRegistration, et)

\* the sub-shape is selected by the envelope's event type
IsKeyMappingEvent(et) ==
    \/ EqualFold(applicationRegistration, et)
    \/ EqualFold(removeApplicationKeyMapping, et)

NewApplicationKeyMapping(e) ==
    [ApplicationID |-> e.ApplicationID, ConsumerKey |-> e.ConsumerKey,
     KeyType |-> e.KeyType, KeyManager |-> e.KeyManager, TenantID |-> -1,
     TenantDomain |-> e.TenantDomain, TimeStamp |-> e.TimeStamp]

NewApplication(e) ==
    [UUID |-> e.UUID, ID |-> e.ApplicationID, Name |-> e.ApplicationName,
     SubName |-> e.Subscriber, Policy |-> e.ApplicationPolicy,
     TokenType |-> e.TokenType, GroupIds |-> e.GroupID, Attributes |-> "nil",
     TenantID |-> -1, TenantDomain |-> e.TenantDomain, TimeStamp |-> e.TimeStamp]

handleApplicationEvents(data, et) ==
    /\ IF IsKeyMappingEvent(et)
       THEN /\ AppKeyMappingList' =
                   Append(AppKeyMappingList,
                          NewApplicationKeyMapping(
                              Unmarshal(data, ZeroApplicationRegistrationEvent)))
            /\ UNCHANGED AppList
       ELSE /\ AppList' =
                   Append(AppList, NewApplication(Unmarshal(data, ZeroApplicationEvent)))
            /\ UNCHANGED AppKeyMappingList
    /\ UNCHANGED <<SubList, APIList, ScopeList, AppPolicyList, SubPolicyList,
                   ApplicationKeyMappingList, timeStampMaps>>

(***************************************************************************)
(* handleSubscriptionEvents                                                *)
(***************************************************************************)
NewSubscription(e) ==
    [SubscriptionID |-> e.SubscriptionID, PolicyID |-> e.PolicyID,
     APIID |-> e.APIID, AppID |-> e.ApplicationID,
     SubscriptionState |-> e.SubscriptionState, TenantID |-> e.TenantID,
     TenantDomain |-> e.TenantDomain, TimeStamp |-> e.TimeStamp]

\* the handler with an update in place of a record of the same subscription
handleSubscriptionEventsUpsert(data, et) ==
    LET subscription == NewSubscription(Unmarshal(data, ZeroSubscriptionEvent))
    IN  /\ SubList' =
               IF \E i \in 1..Len(SubList) :
                      SubList[i].SubscriptionID = subscription.SubscriptionID
               THEN [i \in 1..Len(SubList) |->
                        IF SubList[i].SubscriptionID = subscription.SubscriptionID
                        THEN subscription ELSE SubList[i]]
               ELSE Append(SubList, subscription)
        /\ UNCHANGED <<AppKeyMappingList, APIList, ScopeList, AppPolicyList,
                       SubPolicyList, ApplicationKeyMappingList, AppList, timeStampMaps>>

\* the handler with a delete event taking the subscription's records out
handleSubscriptionEventsDelete(data, et) ==
    LET subscription == NewSubscription(Unmarshal(data, ZeroSubscriptionEvent))
    IN  /\ SubList' =
               IF Contains(et, <<"D","E","L","E","T","E">>)
               THEN SelectSeq(SubList,
                              LAMBDA s : s.SubscriptionID # subscription.SubscriptionID)
               ELSE Append(SubList, subscription)
        /\ UNCHANGED <<AppKeyMappingList, APIList, ScopeList, AppPolicyList,
                       SubPolicyList, ApplicationKeyMappingList, AppList, timeStampMaps>>

handleSubscriptionEvents(data, et) ==
    /\ SubList' = Append(SubList, NewSubscription(Unmarshal(data, ZeroSubscriptionEvent)))
    /\ UNCHANGED <<AppKeyMappingList, APIList, ScopeList, AppPolicyList,
                   SubPolicyList, ApplicationKeyMappingList, AppList, timeStampMaps>>

(***************************************************************************)
(* handleScopeEvents                                                       *)
(***************************************************************************)
NewScope(e) ==
    [Name |-> e.Name, DisplayName |-> e.DisplayName,
     ApplicationName |-> e.ApplicationName]

\* the handler returning early on a payload that does not decode
handleScopeEventsSkipUndecodable(data, et) ==
    /\ ScopeList' =
           IF data.json
           THEN Append(ScopeList, NewScope(Unmarshal(data, ZeroScopeEvent)))
           ELSE ScopeList
    /\ UNCHANGED <<SubList, AppKeyMappingList, APIList, AppPolicyList,
                   SubPolicyList, ApplicationKeyMappingList, AppList, timeStampMaps>>

handleScopeEvents(data, et) ==
    /\ ScopeList' = Append(ScopeList, NewScope(Unmarshal(data, ZeroScopeEvent)))
    /\ UNCHANGED <<SubList, AppKeyMappingList, APIList, AppPolicyList,
                   SubPolicyList, ApplicationKeyMappingList, AppList, timeStampMaps>>

(***************************************************************************)
(* handlePolicyEvents                                                      *)
(***************************************************************************)
NewApplicationPolicy(policyEvent) ==
    [ID |-> policyEvent.PolicyID, TenantID |-> -1, Name |-> policyEvent.PolicyName,
     QuotaType |-> policyEvent.QuotaType]

NewSubscriptionPolicy(e) ==
    [ID |-> e.PolicyID, TenantID |-> -1, Name |-> e.PolicyName,
     QuotaType |-> e.QuotaType, GraphQLMaxComplexity |-> e.GraphQLMaxComplexity,
     GraphQLMaxDepth |-> e.GraphQLMaxDepth, RateLimitCount |-> e.RateLimitCount,
     RateLimitTimeUnit |-> e.RateLimitTimeUnit,
     StopOnQuotaReach |-> e.StopOnQuotaReach, TenantDomain |-> e.TenantDomain,
     TimeStamp |-> e.TimeStamp]

\* the policy type compared with == in place of strings.EqualFold
PolicyTargetCaseSensitive(policyType) ==
    IF apiEventType = policyType THEN "none"
    ELSE IF applicationEventType = policyType THEN "AppPolicyList"
    ELSE IF subscriptionEventType = policyType THEN "SubPolicyList"
    ELSE "none"

\* the chain with a final else that treats the policy as an application policy
PolicyTargetElseApplication(policyType) ==
    IF EqualFold(apiEventType, policyType) THEN "none"
    ELSE IF EqualFold(subscriptionEventType, policyType) THEN "SubPolicyList"
    ELSE "AppPolicyList"

\* the if / else if over the policy type: which collection is appended to.
\* The three branches on the lifecycle event type before it only log.
PolicyTarget(policyType) ==
    IF EqualFold(apiEventType, policyType) THEN "none"
    ELSE IF EqualFold(applicationEventType, policyType) THEN "AppPolicyList"
    ELSE IF EqualFold(subscriptionEventType, policyType) THEN "SubPolicyList"
    ELSE "none"

\* the handler with the application policy appended to AppList
handlePolicyEventsIntoAppList(data, et) ==
    LET policyEvent == Unmarshal(data, ZeroPolicyInfo)
        target == PolicyTarget(policyEvent.PolicyType)
    IN  /\ AppList' =
               IF target = "AppPolicyList"
               THEN Append(AppList, NewApplicationPolicy(policyEvent))
               ELSE AppList
        /\ SubPolicyList' =
               IF target = "SubPolicyList"
               THEN Append(SubPolicyList,
                           NewSubscriptionPolicy(
                               Unmarshal(data, ZeroSubscriptionPolicyEvent)))
               ELSE SubPolicyList
        /\ UNCHANGED <<SubList, AppKeyMappingList, APIList, ScopeList,
                       ApplicationKeyMappingList, AppPolicyList, timeStampMaps>>

handlePolicyEvents(data, et) ==
    LET policyEvent == Unmarshal(data, ZeroPolicyInfo)
        target == PolicyTarget(policyEvent.PolicyType)
    IN  /\ AppPolicyList' =
               IF target = "AppPolicyList"
               THEN Append(AppPolicyList, NewApplicationPolicy(policyEvent))
               ELSE AppPolicyList
        /\ SubPolicyList' =
               IF target = "SubPolicyList"
               THEN Append(SubPolicyList,
                           NewSubscriptionPolicy(
                               Unmarshal(data, ZeroSubscriptionPolicyEvent)))
               ELSE SubPolicyList
        /\ UNCHANGED <<SubList, AppKeyMappingList, APIList, ScopeList,
                       ApplicationKeyMappingList, AppList, timeStampMaps>>

(***************************************************************************)
(* handleNotification                                                      *)
(***************************************************************************)
\* the chain with the SCOPE test moved before the APPLICATION test
HandlerScopeFirst(et) ==
    IF Contains(et, apiEventType) THEN "handleAPIEvents"
    ELSE IF Contains(et, scopeEvenType) THEN "handleScopeEvents"
    ELSE IF Contains(et, applicationEventType) THEN "handleApplicationEvents"
    ELSE IF Contains(et, subscriptionEventType) THEN "handleSubscriptionEvents"
    ELSE "handlePolicyEvents"

\* the if / else if chain over the event type: the handler that is called
Handler(et) ==
    IF Contains(et, apiEventType) THEN "handleAPIEvents"
    ELSE IF Contains(et, applicationEventType) THEN "handleApplicationEvents"
    ELSE IF Contains(et, subscriptionEventType) THEN "handleSubscriptionEvents"
    ELSE IF Contains(et, scopeEvenType) THEN "handleScopeEvents"
    ELSE "handlePolicyEvents"

\* for d := range deliveries, up to the base64 decoding of the inner payload
Decoded(delivery) ==
    DecodeString(Unmarshal(delivery.Body, ZeroEventNotification).Event)

\* the loop takes the next delivery and decodes it
Receive ==
    /\ pc = "range"
    /\ deliveries # <<>>
    /\ ~Decoded(Head(deliveries)).err
    /\ d' = Head(deliveries)
    /\ deliveries' = Tail(deliveries)
    /\ decodedByte' = Decoded(Head(deliveries)).bytes
    /\ eventType' = Unmarshal(Head(deliveries).Body, ZeroEventNotification).EventType
    /\ pc' = "route"
    /\ UNCHANGED <<collections, timeStampMaps, closed, nDelivered, done,
                   callerWaiting, acked, processed>>

\* the loop takes the next delivery, whose inner payload is no base64: panic
ReceivePanic ==
    /\ pc = "range"
    /\ deliveries # <<>>
    /\ Decoded(Head(deliveries)).err
    /\ d' = Head(deliveries)
    /\ deliveries' = Tail(deliveries)
    /\ pc' = "panic"
    /\ UNCHANGED <<collections, timeStampMaps, closed, nDelivered, done,
                   callerWaiting, decodedByte, eventType, acked, processed>>

\* one branch of the chain: the handler runs to its return
Call(h) ==
    /\ pc = "route"
    /\ Handler(eventType) = h
    /\ processed' = Append(processed,
                           [Tag |-> d.Tag, handler |-> h, data |-> decodedByte,
                            eventType |-> eventType, APIList |-> APIList,
                            APIListTimeStamp |-> APIListTimeStamp])
    /\ pc' = "ack"
    /\ UNCHANGED <<transport, d, decodedByte, eventType, acked>>

RouteAPI == Call("handleAPIEvents") /\ handleAPIEvents(decodedByte, eventType)
RouteApplication ==
    Call("handleApplicationEvents") /\ handleApplicationEvents(decodedByte, eventType)
RouteSubscription ==
    Call("handleSubscriptionEvents") /\ handleSubscriptionEvents(decodedByte, eventType)
RouteScope == Call("handleScopeEvents") /\ handleScopeEvents(decodedByte, eventType)
RoutePolicy == Call("handlePolicyEvents") /\ handlePolicyEvents(decodedByte, eventType)

\* the iteration ended without d.Ack
AckDropped ==
    /\ pc = "ack"
    /\ d' = NoDelivery
    /\ decodedByte' = NotJSON
    /\ eventType' = <<>>
    /\ pc' = "range"
    /\ UNCHANGED <<collections, timeStampMaps, transport, processed, acked>>

\* d.Ack(false), and the end of the iteration
Ack ==
    /\ pc = "ack"
    /\ acked' = Append(acked, d.Tag)
    /\ d' = NoDelivery
    /\ decodedByte' = NotJSON
    /\ eventType' = <<>>
    /\ pc' = "range"
    /\ UNCHANGED <<collections, timeStampMaps, transport, processed>>

\* the loop left as soon as the channel is closed, drained or not
RangeEndsOnClose ==
    /\ pc = "range"
    /\ closed
    /\ pc' = "send"
    /\ UNCHANGED <<collections, timeStampMaps, transport, d, decodedByte,
                   eventType, acked, processed>>

\* the range ends: the channel is closed and drained
RangeEnds ==
    /\ pc = "range"
    /\ deliveries = <<>>
    /\ closed
    /\ pc' = "send"
    /\ UNCHANGED <<collections, timeStampMaps, transport, d, decodedByte,
                   eventType, acked, processed>>

\* the function returning without the send on done
SendDoneOmitted ==
    /\ pc = "send"
    /\ pc' = "exit"
    /\ UNCHANGED <<collections, timeStampMaps, transport, d, decodedByte,
                   eventType, acked, processed>>

\* done <- nil
SendDone ==
    /\ pc = "send"
    /\ callerWaiting
    /\ done' = Append(done, "nil")
    /\ callerWaiting' = FALSE
    /\ pc' = "exit"
    /\ UNCHANGED <<collections, timeStampMaps, deliveries, closed, nDelivered,
                   d, decodedByte, eventType, acked, processed>>

(***************************************************************************)
(* The transport and the caller: the message bodies put on the delivery    *)
(* channel, its closure, and the caller's receive from the completion      *)
(* channel.                                                                *)
(***************************************************************************)
\* the message body {"event": {"payloadData": {"event": ..., "eventType": ...}}}
Envelope(et, data) == Object([Event |-> Base64(data), EventType |-> et])

LowerTable ==
    [c \in {UpperCase[i] : i \in 1..Len(UpperCase)} |->
        LowerCase[CHOOSE i \in 1..Len(UpperCase) : UpperCase[i] = c]]

ToLower(s) ==
    [i \in 1..Len(s) |-> IF s[i] \in DOMAIN LowerTable THEN LowerTable[s[i]] ELSE s[i]]

TimeStamps == (-1)..MaxTimeStamp

a1 == <<"a","1">>
A1 == <<"A","1">>
b2 == <<"b","2">>
apiUpdate == <<"A","P","I","_","U","P","D","A","T","E">>

APIEventData(apiID, type, timeStamp) ==
    Object([APIID |-> apiID, APIProvider |-> "admin", APIName |-> "PizzaShack",
            APIVersion |-> "1.0.0", APIContext |-> "/pizza", APIType |-> "HTTP",
            Event |-> [Type |-> type, TimeStamp |-> timeStamp,
                       TenantDomain |-> "carbon.super"]])

\* API events: deploys and removes of a1 at every timestamp, a deploy of an
\* identifier that differs from a1 in case only and of another identifier, and
\* a remove whose subtype is in lower case
APIMessages ==
    {Envelope(type, APIEventData(a1, type, t)) :
        type \in {deployAPIToGateway, removeAPIFromGateway}, t \in TimeStamps}
    \cup {Envelope(deployAPIToGateway, APIEventData(A1, deployAPIToGateway, 1)),
          Envelope(deployAPIToGateway, APIEventData(b2, deployAPIToGateway, 1)),
          Envelope(removeAPIFromGateway,
                   APIEventData(A1, ToLower(removeAPIFromGateway), 1))}

\* the transport puts one more delivery on the channel
Deliver(bodies, max) ==
    /\ ~closed
    /\ nDelivered < max
    /\ Len(deliveries) < MaxQueue
    /\ \E body \in bodies :
           deliveries' = Append(deliveries, [Tag |-> nDelivered + 1, Body |-> body])
    /\ nDelivered' = nDelivered + 1
    /\ UNCHANGED <<collections, timeStampMaps, closed, done, callerWaiting,
                   locals, acked, processed>>

DeliverAPI == Deliver(APIMessages, MaxAPIMsgs)

\* the transport closes the delivery channel
Close ==
    /\ ~closed
    /\ closed' = TRUE
    /\ UNCHANGED <<collections, timeStampMaps, deliveries, nDelivered, done,
                   callerWaiting, locals, acked, processed>>

\* the caller starts to receive from the completion channel
CallerReceive ==
    /\ ~callerWaiting
    /\ done = <<>>
    /\ callerWaiting' = TRUE
    /\ UNCHANGED <<collections, timeStampMaps, deliveries, closed, nDelivered,
                   done, locals, acked, processed>>

(***************************************************************************)
(* SpecAPI: the loop fed with API events only.                             *)
(***************************************************************************)
NextAPI == DeliverAPI \/ Receive \/ RouteAPI \/ Ack

SpecAPI == Init /\ [][NextAPI]_vars

(***************************************************************************)
(* Events of the other categories.                                         *)
(***************************************************************************)
create == <<"_","C","R","E","A","T","E">>
delete == <<"_","D","E","L","E","T","E">>
global == <<"G","L","O","B","A","L">>

ApplicationEventData ==
    Object([UUID |-> "uuid-7", ApplicationID |-> 7, ApplicationName |-> "app",
            Subscriber |-> "alice", ApplicationPolicy |-> "Unlimited",
            TokenType |-> "JWT", GroupID |-> "grp",
            TenantDomain |-> "carbon.super", TimeStamp |-> 1])
ApplicationRegistrationData ==
    Object([ApplicationID |-> 7, ConsumerKey |-> "ck", KeyType |-> "PRODUCTION",
            KeyManager |-> "Resident", TenantDomain |-> "carbon.super",
            TimeStamp |-> 1])
SubscriptionEventData ==
    Object([SubscriptionID |-> 11, PolicyID |-> 9, APIID |-> 5, ApplicationID |-> 7,
            SubscriptionState |-> "UNBLOCKED", TenantID |-> -1234,
            TenantDomain |-> "carbon.super", TimeStamp |-> 1])
ScopeEventData ==
    Object([Name |-> "read", DisplayName |-> "Read", ApplicationName |-> "app"])
PolicyEventData(policyType) ==
    Object([PolicyID |-> 9, PolicyName |-> "Gold", QuotaType |-> "Q",
            PolicyType |-> policyType, GraphQLMaxComplexity |-> 4,
            GraphQLMaxDepth |-> 5, RateLimitCount |-> 10,
            RateLimitTimeUnit |-> "min", StopOnQuotaReach |-> TRUE,
            TenantDomain |-> "carbon.super", TimeStamp |-> 1])

PolicyTypes ==
    {subscriptionEventType, ToLower(applicationEventType), apiEventType, global}

\* one deploy and one remove of an API; application, key-mapping, subscription
\* and scope events of the create and the delete class; an event type holding
\* two category names; policy events of two lifecycle classes for each policy
\* type; an event type in lower case
EventMessages ==
    {Envelope(deployAPIToGateway, APIEventData(a1, deployAPIToGateway, 1)),
     Envelope(removeAPIFromGateway, APIEventData(a1, removeAPIFromGateway, 1)),
     Envelope(applicationEventType \o create, ApplicationEventData),
     Envelope(applicationEventType \o delete, ApplicationEventData),
     Envelope(applicationRegistration, ApplicationRegistrationData),
     Envelope(removeApplicationKeyMapping, ApplicationRegistrationData),
     Envelope(applicationEventType \o ToLower(<<"_","R","E","G","I","S","T","R","A","T","I","O","N">> \o create),
              ApplicationRegistrationData),
     Envelope(applicationEventType \o scopeEvenType, ApplicationEventData),
     Envelope(subscriptionEventType \o create, SubscriptionEventData),
     Envelope(subscriptionEventType \o delete, SubscriptionEventData),
     Envelope(scopeEvenType \o create, ScopeEventData),
     Envelope(scopeEvenType \o delete, ScopeEventData),
     Envelope(ToLower(applicationEventType \o create), ApplicationEventData)}
    \cup {Envelope(et, PolicyEventData(pt)) :
            et \in {policyCreate, policyDelete}, pt \in PolicyTypes}

\* one event for each handler, a body that is no JSON document, an inner
\* payload that is no base64, and inner payloads that are no JSON document
LoopMessages ==
    {Envelope(deployAPIToGateway, APIEventData(a1, deployAPIToGateway, 1)),
     Envelope(applicationEventType \o create, ApplicationEventData),
     Envelope(subscriptionEventType \o create, SubscriptionEventData),
     Envelope(scopeEvenType \o create, ScopeEventData),
     Envelope(policyCreate, PolicyEventData(subscriptionEventType)),
     NotJSON,
     Object([Event |-> CorruptBase64, EventType |-> policyCreate]),
     Envelope(apiUpdate, NotJSON),
     Envelope(subscriptionEventType \o create, NotJSON),
     Envelope(policyCreate, NotJSON)}

\* messages whose envelope decodes and whose category payload does not, one
\* or two for each handler, and two well-formed events that fill collections
MalformedMessages ==
    {Envelope(deployAPIToGateway, NotJSON),
     Envelope(removeAPIFromGateway, NotJSON),
     Envelope(applicationEventType \o create, NotJSON),
     Envelope(applicationRegistration, NotJSON),
     Envelope(subscriptionEventType \o create, NotJSON),
     Envelope(scopeEvenType \o create, NotJSON),
     Envelope(policyCreate, NotJSON),
     Envelope(deployAPIToGateway, APIEventData(a1, deployAPIToGateway, 1)),
     Envelope(subscriptionEventType \o create, SubscriptionEventData)}

DeliverMalformed == Deliver(MalformedMessages, MaxMalformedMsgs)
DeliverEvent == Deliver(EventMessages, MaxEventMsgs)
DeliverMessage == Deliver(LoopMessages, MaxMsgs)

(***************************************************************************)
(* SpecMalformed: the loop fed with events whose category payload is no    *)
(* JSON.                                                                   *)
(***************************************************************************)
NextMalformed ==
    \/ DeliverMalformed
    \/ Receive
    \/ RouteAPI
    \/ RouteApplication
    \/ RouteSubscription
    \/ RouteScope
    \/ RoutePolicy
    \/ Ack

SpecMalformed == Init /\ [][NextMalformed]_vars

(***************************************************************************)
(* SpecEvents: the loop fed with well-formed events of every category.     *)
(***************************************************************************)
NextEvents ==
    \/ DeliverEvent
    \/ Receive
    \/ RouteAPI
    \/ RouteApplication
    \/ RouteSubscription
    \/ RouteScope
    \/ RoutePolicy
    \/ Ack

SpecEvents == Init /\ [][NextEvents]_vars

(***************************************************************************)
(* Spec: the loop, the transport and the caller, with malformed messages   *)
(* among the deliveries.                                                   *)
(***************************************************************************)
Next ==
    \/ DeliverMessage
    \/ Close
    \/ CallerReceive
    \/ Receive
    \/ ReceivePanic
    \/ RouteAPI
    \/ RouteApplication
    \/ RouteSubscription
    \/ RouteScope
    \/ RoutePolicy
    \/ Ack
    \/ RangeEnds
    \/ SendDone

Spec == Init /\ [][Next]_vars

(***************************************************************************)
(* Notions the properties below are stated with.                           *)
(***************************************************************************)
Last(seq) == seq[Len(seq)]

\* the handler invocation processed[i] was given a well-formed API event of
\* the subtype type (compared as the code compares subtypes, ignoring case)
IsAPIEvent(i, type) ==
    /\ processed[i].handler = "handleAPIEvents"
    /\ processed[i].data.json
    /\ EqualFold(type, processed[i].data.obj.Event.Type)

EventAPIID(i) == processed[i].data.obj.APIID
EventTimeStamp(i) == processed[i].data.obj.Event.TimeStamp

\* the API collection as invocation i found it, and as it left it
APIListBefore(i) == processed[i].APIList
APIListLeft(i) == IF i < Len(processed) THEN processed[i + 1].APIList ELSE APIList

\* the records of list that carry the identifier apiID
Matching(list, apiID) == {j \in 1..Len(list) : EqualFold(apiID, list[j].APIID)}

\* list without its j-th record
Without(list, j) == SubSeq(list, 1, j - 1) \o SubSeq(list, j + 1, Len(list))

\* the timestamp the map m records for apiID, 0 when it records none
Recorded(m, apiID) == IF apiID \in DOMAIN m THEN m[apiID] ELSE 0

\* the handler the documented precedence order selects for an event type
Precedence ==
    <<[substr |-> apiEventType, handler |-> "handleAPIEvents"],
      [substr |-> applicationEventType, handler |-> "handleApplicationEvents"],
      [substr |-> subscriptionEventType, handler |-> "handleSubscriptionEvents"],
      [substr |-> scopeEvenType, handler |-> "handleScopeEvents"]>>

FirstMatch(et) ==
    LET hits == {i \in 1..Len(Precedence) : Contains(et, Precedence[i].substr)}
    IN  IF hits = {} THEN "handlePolicyEvents"
        ELSE Precedence[CHOOSE i \in hits : \A j \in hits : i <= j].handler

(***************************************************************************)
(* The properties of a handler invocation are stated of the latest one:    *)
(* every invocation is the latest in the states that follow it up to the   *)
(* next invocation, so an invariant over the latest covers them all.       *)
(***************************************************************************)
Latest == IF processed = <<>> THEN {} ELSE {Len(processed)}

(***************************************************************************)
(* C1.  Every message that is routed invokes exactly one category handler: *)
(* the one of the first of "API", "APPLICATION", "SUBSCRIPTIONS", "SCOPE"  *)
(* that the event type contains (case-sensitively), the Policy handler     *)
(* when it contains none.  An event type that contains "APPLICATION" and   *)
(* "SCOPE" and not "API" goes to the Application handler.                  *)
(***************************************************************************)
C1_RouterPrecedence ==
    /\ Len(processed) = Len(acked) + (IF pc = "ack" THEN 1 ELSE 0)
    /\ \A i \in 1..Len(processed) : processed[i].Tag = i
    /\ \A i \in Latest :
          /\ processed[i].handler = FirstMatch(processed[i].eventType)
          /\ (/\ Contains(processed[i].eventType, applicationEventType)
              /\ Contains(processed[i].eventType, scopeEvenType)
              /\ ~Contains(processed[i].eventType, apiEventType))
             => processed[i].handler = "handleApplicationEvents"

\* an event type with two category names has gone to the Application
\* handler, and an event type with none to the Policy handler
C1_Witness ==
    /\ \E i \in 1..Len(processed) :
          /\ processed[i].eventType = applicationEventType \o scopeEvenType
          /\ processed[i].handler = "handleApplicationEvents"
    /\ \E i \in 1..Len(processed) :
          /\ processed[i].eventType = ToLower(applicationEventType \o create)
          /\ processed[i].handler = "handlePolicyEvents"

(***************************************************************************)
(* C2.  A remove event for API identifier k whose timestamp does not       *)
(* exceed the timestamp of the last API event applied for k before it (an  *)
(* event for k that changed the collection, such as the deploy that        *)
(* created the record) leaves the API collection unchanged.                *)
(***************************************************************************)
AppliedBefore(n) ==
    {i \in 1..(n - 1) :
        /\ processed[i].handler = "handleAPIEvents"
        /\ processed[i].data.json
        /\ EqualFold(EventAPIID(n), EventAPIID(i))
        /\ APIListLeft(i) # APIListBefore(i)}

C2_StaleRemoveAfterEventRejected ==
    \A n \in Latest :
        (/\ IsAPIEvent(n, removeAPIFromGateway)
         /\ AppliedBefore(n) # {}
         /\ LET last == CHOOSE i \in AppliedBefore(n) :
                            \A j \in AppliedBefore(n) : j <= i
            IN  EventTimeStamp(n) <= EventTimeStamp(last))
        => APIListLeft(n) = APIListBefore(n)

(***************************************************************************)
(* C3.  A remove event whose timestamp is strictly greater than the        *)
(* timestamp the API timestamp map records for its identifier (0 when it   *)
(* records none), handled while the API collection holds a record with     *)
(* that identifier, removes exactly one matching record: the collection    *)
(* is one shorter and the other records keep their order.                  *)
(***************************************************************************)
C3_FreshRemoveRemovesOne ==
    \A n \in Latest :
        (/\ IsAPIEvent(n, removeAPIFromGateway)
         /\ EventTimeStamp(n) > Recorded(processed[n].APIListTimeStamp, EventAPIID(n))
         /\ Matching(APIListBefore(n), EventAPIID(n)) # {})
        => /\ \E j \in Matching(APIListBefore(n), EventAPIID(n)) :
                  APIListLeft(n) = Without(APIListBefore(n), j)
           /\ Len(APIListLeft(n)) = Len(APIListBefore(n)) - 1

\* a fresh remove has been handled on a collection of three records, two of
\* them matching, the first match not being the last record
C3_Witness ==
    \E n \in 1..Len(processed) :
        /\ IsAPIEvent(n, removeAPIFromGateway)
        /\ EventTimeStamp(n) > Recorded(processed[n].APIListTimeStamp, EventAPIID(n))
        /\ Len(APIListBefore(n)) = 3
        /\ Cardinality(Matching(APIListBefore(n), EventAPIID(n))) = 2
        /\ 3 \notin Matching(APIListBefore(n), EventAPIID(n))
        /\ Len(APIListLeft(n)) = 2

(***************************************************************************)
(* C4.  A remove event whose timestamp does not exceed the timestamp the   *)
(* API timestamp map records for its identifier (0 when it records none)   *)
(* leaves the API collection unchanged.                                    *)
(***************************************************************************)
C4_StaleRemoveIgnored ==
    \A n \in Latest :
        (/\ IsAPIEvent(n, removeAPIFromGateway)
         /\ EventTimeStamp(n) <= Recorded(processed[n].APIListTimeStamp, EventAPIID(n)))
        => APIListLeft(n) = APIListBefore(n)

\* a stale remove has been handled while the collection held a matching record
C4_Witness ==
    \E n \in 1..Len(processed) :
        /\ IsAPIEvent(n, removeAPIFromGateway)
        /\ EventTimeStamp(n) <= Recorded(processed[n].APIListTimeStamp, EventAPIID(n))
        /\ Matching(APIListBefore(n), EventAPIID(n)) # {}
        /\ APIListLeft(n) = APIListBefore(n)

(***************************************************************************)
(* C5.  Every deploy event appends exactly one record at the end of the    *)
(* API collection, with identifier, provider, name, version, context,      *)
(* type, tenant domain and timestamp copied from the event, whatever its   *)
(* timestamp and whether or not a record with its identifier exists; for   *)
(* a fresh identifier the collection then holds exactly one record         *)
(* matching it, and repeated deploys accumulate duplicates.                *)
(***************************************************************************)
C5_DeployAppends ==
    \A n \in Latest :
        IsAPIEvent(n, deployAPIToGateway)
        => LET e == processed[n].data.obj
           IN  /\ APIListLeft(n) =
                      Append(APIListBefore(n),
                             [APIID |-> e.APIID, Provider |-> e.APIProvider,
                              Name |-> e.APIName, Version |-> e.APIVersion,
                              Context |-> e.APIContext, APIType |-> e.APIType,
                              IsDefaultVersion |-> TRUE, TenantID |-> -1,
                              TenantDomain |-> e.Event.TenantDomain,
                              TimeStamp |-> e.Event.TimeStamp])
               /\ Matching(APIListBefore(n), e.APIID) = {}
                  => Cardinality(Matching(APIListLeft(n), e.APIID)) = 1

\* a deploy has been handled for an identifier the collection already held,
\* with a timestamp below that of the record held: the collection holds both
C5_Witness ==
    \E n \in 1..Len(processed) :
        /\ IsAPIEvent(n, deployAPIToGateway)
        /\ \E j \in Matching(APIListBefore(n), EventAPIID(n)) :
               EventTimeStamp(n) < APIListBefore(n)[j].TimeStamp
        /\ Cardinality(Matching(APIListLeft(n), EventAPIID(n))) >= 2

(***************************************************************************)
(* C6.  Round trip: a deploy event for an identifier k that no record of   *)
(* the API collection carries, with timestamp t, followed by a remove      *)
(* event for k with a timestamp t' > t, leaves the API collection as it    *)
(* was before the deploy.                                                  *)
(***************************************************************************)
C6_DeployRemoveRoundTrip ==
    \A n \in {i - 1 : i \in Latest} \ {0} :
        (/\ IsAPIEvent(n, deployAPIToGateway)
         /\ IsAPIEvent(n + 1, removeAPIFromGateway)
         /\ EventAPIID(n + 1) = EventAPIID(n)
         /\ EventTimeStamp(n + 1) > EventTimeStamp(n)
         /\ Matching(APIListBefore(n), EventAPIID(n)) = {})
        => APIListLeft(n + 1) = APIListBefore(n)

(***************************************************************************)
(* C7.  The Application, Subscription and Scope handlers append without    *)
(* deduplication: after N events routed to one of them, the collections    *)
(* of that kind hold exactly N records in total, also when events repeat   *)
(* a natural key.                                                          *)
(***************************************************************************)
Invocations(h) == Cardinality({i \in 1..Len(processed) : processed[i].handler = h})

C7_AppendOnly ==
    /\ Len(AppList) + Len(AppKeyMappingList) = Invocations("handleApplicationEvents")
    /\ Len(SubList) = Invocations("handleSubscriptionEvents")
    /\ Len(ScopeList) = Invocations("handleScopeEvents")

\* three subscription events with one subscription ID have been handled and
\* three equal records are held
C7_Witness ==
    /\ Invocations("handleSubscriptionEvents") = 3
    /\ Len(SubList) = 3
    /\ SubList[1] = SubList[2]
    /\ SubList[2] = SubList[3]
    /\ SubList[1].SubscriptionID = 11

(***************************************************************************)
(* C8.  The Policy handler mutates by policy type, compared ignoring case, *)
(* and not by the lifecycle event type: a SUBSCRIPTIONS policy appends one *)
(* record with the event's fields to the subscription-policy collection,   *)
(* an APPLICATION policy appends one record to the application-policy      *)
(* collection, and an API policy or one of any other type changes no       *)
(* collection.                                                             *)
(***************************************************************************)
PolicyStep ==
    /\ pc = "route"
    /\ pc' = "ack"
    /\ Last(processed').handler = "handlePolicyEvents"

\* the policy type the event carries, "" when it carries none
CarriedPolicyType(data) ==
    IF data.json /\ "PolicyType" \in DOMAIN data.obj THEN data.obj.PolicyType ELSE <<>>

C8_PolicyEffect ==
    PolicyStep =>
        LET pt == CarriedPolicyType(decodedByte)
            e  == decodedByte.obj
        IN  /\ UNCHANGED <<SubList, AppKeyMappingList, APIList, ScopeList,
                           ApplicationKeyMappingList, AppList>>
            /\ IF EqualFold(pt, subscriptionEventType)
               THEN /\ SubPolicyList' =
                          Append(SubPolicyList,
                                 [ID |-> e.PolicyID, TenantID |-> -1,
                                  Name |-> e.PolicyName, QuotaType |-> e.QuotaType,
                                  GraphQLMaxComplexity |-> e.GraphQLMaxComplexity,
                                  GraphQLMaxDepth |-> e.GraphQLMaxDepth,
                                  RateLimitCount |-> e.RateLimitCount,
                                  RateLimitTimeUnit |-> e.RateLimitTimeUnit,
                                  StopOnQuotaReach |-> e.StopOnQuotaReach,
                                  TenantDomain |-> e.TenantDomain,
                                  TimeStamp |-> e.TimeStamp])
                    /\ UNCHANGED AppPolicyList
               ELSE IF EqualFold(pt, applicationEventType)
               THEN /\ AppPolicyList' =
                          Append(AppPolicyList,
                                 [ID |-> e.PolicyID, TenantID |-> -1,
                                  Name |-> e.PolicyName, QuotaType |-> e.QuotaType])
                    /\ UNCHANGED SubPolicyList
               ELSE UNCHANGED <<AppPolicyList, SubPolicyList>>

C8_PolicyByType == [][C8_PolicyEffect]_vars

\* policy events of both lifecycle classes have been handled for the
\* SUBSCRIPTIONS type, one for the application type written in lower case
\* and one for the API type: two subscription policies and one application
\* policy are held
C8_Witness ==
    /\ \E i \in 1..Len(processed) :
          /\ processed[i].eventType = policyCreate
          /\ CarriedPolicyType(processed[i].data) = subscriptionEventType
    /\ \E i \in 1..Len(processed) :
          /\ processed[i].eventType = policyDelete
          /\ CarriedPolicyType(processed[i].data) = subscriptionEventType
    /\ \E i \in 1..Len(processed) :
          /\ processed[i].handler = "handlePolicyEvents"
          /\ CarriedPolicyType(processed[i].data) = ToLower(applicationEventType)
    /\ Len(SubPolicyList) = 2
    /\ SubPolicyList[1].QuotaType = "Q"
    /\ SubPolicyList[1].GraphQLMaxDepth = 5
    /\ Len(AppPolicyList) = 1

(***************************************************************************)
(* C9.  Messages are processed one at a time in delivery order: a message  *)
(* whose inner payload base64-decodes is acknowledged exactly once, after  *)
(* its handler has returned and before the handler of the next message     *)
(* starts, so acknowledgements occur in delivery order and none precedes   *)
(* its catalog mutation.                                                   *)
(***************************************************************************)
\* the deliveries the loop has taken from the channel
Taken == nDelivered - Len(deliveries)

C10_DoneOnceAfterDrain ==
    /\ Len(done) <= 1
    /\ \A i \in 1..Len(done) : done[i] = "nil"
    /\ done # <<>> => /\ closed
                      /\ deliveries = <<>>
                      /\ pc = "exit"
                      /\ Len(processed) = nDelivered
                      /\ acked = [i \in 1..nDelivered |-> i]

\* the signal has been written after three messages were delivered
C10_Witness ==
    /\ done = <<"nil">>
    /\ nDelivered = 3
    /\ Len(acked) = 3


(***************************************************************************)
(* C11.  A message whose inner payload is no valid base64 is fatal: the    *)
(* loop stops at it.  The message is neither routed to a handler nor       *)
(* acknowledged, no collection or timestamp map changes, no later message  *)
(* is handled or acknowledged, and the completion signal is never written. *)
(***************************************************************************)
\* the body decodes to an envelope whose inner payload is malformed base64
CorruptPayload(body) == body.json /\ ~body.obj.Event.valid

\* the loop takes the delivery at the head of the channel
TakesHead == pc = "range" /\ deliveries # <<>> /\ deliveries' = Tail(deliveries)

C11_StoppedState ==
    pc = "panic" => /\ CorruptPayload(d.Body)
                    /\ Len(processed) = d.Tag - 1
                    /\ Len(acked) = d.Tag - 1
                    /\ done = <<>>

C11_StoppingStep ==
    /\ (TakesHead /\ CorruptPayload(Head(deliveries).Body))
       => /\ pc' = "panic"
          /\ UNCHANGED <<collections, timeStampMaps, acked, processed, done>>
    /\ pc = "panic"
       => /\ pc' = "panic"
          /\ UNCHANGED <<collections, timeStampMaps, acked, processed, done, d>>

C11_CorruptPayloadFatal == [][C11_StoppingStep]_vars /\ []C11_StoppedState

\* the loop has stopped at the second delivery with the first acknowledged,
\* and a later delivery waits in the channel
C11_Witness ==
    /\ pc = "panic"
    /\ d.Tag = 2
    /\ acked = <<1>>
    /\ Len(processed) = 1
    /\ deliveries # <<>>


(***************************************************************************)
(* SpecLive: Spec with the loop scheduled fairly.  handleNotification runs *)
(* as a goroutine: whenever its next step can be taken it is eventually    *)
(* taken.  Nothing is assumed of the transport or of the caller.           *)
(***************************************************************************)
LoopStep ==
    \/ Receive
    \/ ReceivePanic
    \/ RouteAPI
    \/ RouteApplication
    \/ RouteSubscription
    \/ RouteScope
    \/ RoutePolicy
    \/ Ack
    \/ RangeEnds
    \/ SendDone

SpecLive == Init /\ [][Next]_vars /\ WF_vars(LoopStep)

(***************************************************************************)
(* C12.  If the delivery channel is closed, no message delivered has a     *)
(* malformed base64 payload and the caller receives from the completion    *)
(* channel, then the loop eventually has acknowledged every delivered      *)
(* message and written the completion signal.                              *)
(***************************************************************************)
C12_ClosedCleanAndAwaited ==
    /\ closed
    /\ callerWaiting
    /\ pc # "panic"
    /\ \A i \in 1..Len(deliveries) : ~CorruptPayload(deliveries[i].Body)

C12_Completed ==
    /\ done = <<"nil">>
    /\ acked = [i \in 1..nDelivered |-> i]

C12_EventuallyCompletes == C12_ClosedCleanAndAwaited ~> C12_Completed

\* the channel was closed with two messages delivered, both were handled,
\* and the loop has acknowledged them and written the signal
C12_Witness ==
    /\ closed
    /\ nDelivered = 2
    /\ Len(processed) = 2
    /\ C12_Completed


(***************************************************************************)
(* C13.  The API timestamp map maps each API identifier to the timestamp   *)
(* of the last event applied for it: once an API event for identifier k    *)
(* with timestamp t has been handled, the map holds the entry k -> t.      *)
(***************************************************************************)
C13_TimeStampRecorded ==
    \A n \in Latest :
        (processed[n].handler = "handleAPIEvents" /\ processed[n].data.json)
        => /\ EventAPIID(n) \in DOMAIN APIListTimeStamp
           /\ APIListTimeStamp[EventAPIID(n)] = EventTimeStamp(n)


(***************************************************************************)
(* C14.  After a remove event for identifier k has been honored, the API   *)
(* collection does not contain two records with identifier k, whatever     *)
(* deploy and remove events preceded it.                                   *)
(***************************************************************************)
\* invocation n was given a remove event that passed the removal guard
HonoredRemove(n) ==
    /\ IsAPIEvent(n, removeAPIFromGateway)
    /\ EventTimeStamp(n) > Recorded(processed[n].APIListTimeStamp, EventAPIID(n))

C14_NoTwoAfterRemove ==
    \A n \in Latest :
        HonoredRemove(n) => Cardinality(Matching(APIList, EventAPIID(n))) < 2

(***************************************************************************)
(* C14, amended.  After a remove event for identifier k has been honored,  *)
(* the API collection contains one record with identifier k fewer than     *)
(* before it (none when it held none); so it contains two records with     *)
(* identifier k exactly when it held three before the remove, which        *)
(* repeated deploys of k produce.                                          *)
(***************************************************************************)
C14_OneFewerAfterRemove ==
    \A n \in Latest :
        HonoredRemove(n)
        => LET had == Cardinality(Matching(APIListBefore(n), EventAPIID(n)))
               has == Cardinality(Matching(APIListLeft(n), EventAPIID(n)))
           IN  /\ has = (IF had = 0 THEN 0 ELSE had - 1)
               /\ has = 2 <=> had = 3

\* a remove has been honored on a collection that held three records with
\* its identifier, and two are left
C14_Witness ==
    \E n \in 1..Len(processed) :
        /\ HonoredRemove(n)
        /\ Cardinality(Matching(APIListBefore(n), EventAPIID(n))) = 3
        /\ Cardinality(Matching(APIListLeft(n), EventAPIID(n))) = 2


(***************************************************************************)
(* C15.  Every mutation is confined to its own kind: an event routed to    *)
(* the handler of kind K changes at most K's collections and K's timestamp *)
(* map and leaves every other collection and timestamp map unchanged; a    *)
(* step that is no handler invocation changes none of them.                *)
(***************************************************************************)
\* a step in which a handler is invoked and returns
HandlerStep == pc = "route" /\ pc' = "ack"

C15_Frame ==
    IF HandlerStep
    THEN LET h == Last(processed').handler
         IN  /\ h = "handleAPIEvents"
                => UNCHANGED <<SubList, AppKeyMappingList, ScopeList, AppPolicyList,
                               SubPolicyList, ApplicationKeyMappingList, AppList,
                               ApplicationListTimeStamp>>
             /\ h = "handleApplicationEvents"
                => UNCHANGED <<SubList, APIList, ScopeList, AppPolicyList,
                               SubPolicyList, APIListTimeStamp>>
             /\ h = "handleSubscriptionEvents"
                => UNCHANGED <<AppKeyMappingList, APIList, ScopeList, AppPolicyList,
                               SubPolicyList, ApplicationKeyMappingList, AppList,
                               timeStampMaps>>
             /\ h = "handleScopeEvents"
                => UNCHANGED <<SubList, AppKeyMappingList, APIList, AppPolicyList,
                               SubPolicyList, ApplicationKeyMappingList, AppList,
                               timeStampMaps>>
             /\ h = "handlePolicyEvents"
                => UNCHANGED <<SubList, AppKeyMappingList, APIList, ScopeList,
                               ApplicationKeyMappingList, AppList, timeStampMaps>>
    ELSE UNCHANGED <<collections, timeStampMaps>>

C15_MutationConfinedToKind == [][C15_Frame]_vars

\* an API event has just changed the API collection while the application
\* and subscription collections, filled by earlier events, stayed as they were
C15_Witness ==
    /\ pc = "ack"
    /\ Len(processed) = 3
    /\ processed[3].handler = "handleAPIEvents"
    /\ processed[3].APIList # APIList
    /\ Len(AppList) = 1
    /\ Len(SubList) = 1


(***************************************************************************)
(* C16.  The application, key-mapping, subscription, scope,                *)
(* application-policy and subscription-policy collections only grow: in    *)
(* every step the collection before is a prefix of the collection after,   *)
(* also for the delete-class events (APPLICATION_DELETE,                   *)
(* SUBSCRIPTIONS_DELETE, SCOPE_DELETE, POLICY_DELETE,                      *)
(* REMOVE_APPLICATION_KEYMAPPING).  Only the API collection can shrink.    *)
(***************************************************************************)
IsPrefix(s, t) == Len(s) <= Len(t) /\ \A i \in 1..Len(s) : s[i] = t[i]

C16_Grows ==
    /\ IsPrefix(AppList, AppList')
    /\ IsPrefix(AppKeyMappingList, AppKeyMappingList')
    /\ IsPrefix(SubList, SubList')
    /\ IsPrefix(ScopeList, ScopeList')
    /\ IsPrefix(AppPolicyList, AppPolicyList')
    /\ IsPrefix(SubPolicyList, SubPolicyList')

C16_OnlyAPIListShrinks == [][C16_Grows]_vars

\* the API collection has shrunk on a removal, and a SUBSCRIPTIONS_DELETE
\* event handled afterwards has added a subscription record
C16_Witness ==
    /\ pc = "ack"
    /\ Len(processed) = 3
    /\ Len(processed[2].APIList) = 1
    /\ processed[3].APIList = <<>>
    /\ processed[3].handler = "handleSubscriptionEvents"
    /\ Contains(processed[3].eventType, delete)
    /\ Len(SubList) = 1


(***************************************************************************)
(* C17.  The Application handler appends exactly one record to exactly one *)
(* collection, selected by the envelope's event type and not by the        *)
(* decoded body: the key-mapping collection when the event type equals     *)
(* APPLICATION_REGISTRATION_CREATE or REMOVE_APPLICATION_KEYMAPPING, the   *)
(* application collection for every other event type.                      *)
(***************************************************************************)
ApplicationStep ==
    HandlerStep /\ Last(processed').handler = "handleApplicationEvents"

OneMore(s, t) == Len(t) = Len(s) + 1 /\ IsPrefix(s, t)

\* the step appends one record to the collection selected by keyMapping
AppendsToSelected(keyMapping) ==
    IF keyMapping
    THEN OneMore(AppKeyMappingList, AppKeyMappingList') /\ UNCHANGED AppList
    ELSE OneMore(AppList, AppList') /\ UNCHANGED AppKeyMappingList

\* the selection by equality of the event type with one of the two names
C17_SelectedByEqualType ==
    [][ApplicationStep
       => AppendsToSelected(eventType \in {applicationRegistration,
                                           removeApplicationKeyMapping})]_vars

(***************************************************************************)
(* C17, amended.  The selection compares the event type with the two names *)
(* ignoring letter case: the key-mapping collection when the event type    *)
(* equals one of them up to case, the application collection otherwise.    *)
(***************************************************************************)
C17_SelectedByTypeIgnoringCase ==
    [][ApplicationStep
       => AppendsToSelected(\/ EqualFold(eventType, applicationRegistration)
                            \/ EqualFold(eventType, removeApplicationKeyMapping))]_vars

\* an event whose type spells APPLICATION_REGISTRATION_CREATE in mixed case
\* has added a key-mapping record and no application record
C17_Witness ==
    /\ pc = "ack"
    /\ Last(processed).handler = "handleApplicationEvents"
    /\ Last(processed).eventType # applicationRegistration
    /\ EqualFold(Last(processed).eventType, applicationRegistration)
    /\ Len(AppKeyMappingList) = 1
    /\ AppList = <<>>


(***************************************************************************)
(* C18.  An envelope that fails JSON decoding is not fatal: the loop goes  *)
(* on with the zero-valued envelope (empty event type, empty payload), the *)
(* handler it reaches changes no collection and no timestamp map, and the  *)
(* delivery is still acknowledged.                                         *)
(***************************************************************************)
UndecodableEnvelope(delivery) == ~delivery.Body.json

C18_Step ==
    /\ (TakesHead /\ UndecodableEnvelope(Head(deliveries)))
       => /\ pc' = "route"
          /\ eventType' = <<>>
          /\ ~decodedByte'.json
    /\ (pc = "route" /\ UndecodableEnvelope(d) /\ pc' # pc)
       => /\ pc' = "ack"
          /\ UNCHANGED <<collections, timeStampMaps>>
    /\ (pc = "ack" /\ UndecodableEnvelope(d) /\ pc' # pc)
       => /\ pc' = "range"
          /\ acked' = Append(acked, d.Tag)

C18_UndecodableEnvelopeHarmless == [][C18_Step]_vars

\* the second delivery was no JSON: it went to the policy handler with the
\* empty event type and payload and has been acknowledged; the subscription
\* added by the first delivery is all the collections hold
C18_Witness ==
    /\ Len(processed) = 2
    /\ processed[2].eventType = <<>>
    /\ ~processed[2].data.json
    /\ processed[2].handler = "handlePolicyEvents"
    /\ acked = <<1, 2>>
    /\ Len(SubList) = 1
    /\ AppPolicyList = <<>>
    /\ SubPolicyList = <<>>


(***************************************************************************)
(* C19.  A message with a valid envelope and an undecodable category       *)
(* payload is still acknowledged.  Routed to the Application, Subscription *)
(* or Scope handler it appends one zero-valued record to that collection;  *)
(* routed to the API or Policy handler it changes no collection.           *)
(***************************************************************************)
\* the delivery in hand has an envelope that decodes and a payload that does not
UndecodablePayload == d.Body.json /\ ~decodedByte.json

\* zero values of the record types of the collections
ZeroApplication ==
    [UUID |-> "", ID |-> 0, Name |-> "", SubName |-> "", Policy |-> "",
     TokenType |-> "", GroupIds |-> "", Attributes |-> "nil", TenantID |-> 0,
     TenantDomain |-> "", TimeStamp |-> 0]
ZeroApplicationKeyMapping ==
    [ApplicationID |-> 0, ConsumerKey |-> "", KeyType |-> "", KeyManager |-> "",
     TenantID |-> 0, TenantDomain |-> "", TimeStamp |-> 0]
ZeroSubscription ==
    [SubscriptionID |-> 0, PolicyID |-> 0, APIID |-> 0, AppID |-> 0,
     SubscriptionState |-> "", TenantID |-> 0, TenantDomain |-> "", TimeStamp |-> 0]
ZeroScope == [Name |-> "", DisplayName |-> "", ApplicationName |-> ""]

\* the effect of the handler step on an undecodable payload, with app and
\* keyMapping the records expected of the Application handler
UndecodableEffect(app, keyMapping) ==
    LET h == Last(processed').handler
    IN  /\ h \in {"handleAPIEvents", "handlePolicyEvents"}
           => UNCHANGED <<collections, timeStampMaps>>
        /\ h = "handleApplicationEvents"
           => \/ AppList' = Append(AppList, app) /\ UNCHANGED AppKeyMappingList
              \/ /\ AppKeyMappingList' = Append(AppKeyMappingList, keyMapping)
                 /\ UNCHANGED AppList
        /\ h = "handleSubscriptionEvents"
           => SubList' = Append(SubList, ZeroSubscription)
        /\ h = "handleScopeEvents"
           => ScopeList' = Append(ScopeList, ZeroScope)

UndecodableStep(app, keyMapping) ==
    /\ (HandlerStep /\ UndecodablePayload) => UndecodableEffect(app, keyMapping)
    /\ (pc = "ack" /\ UndecodablePayload /\ pc' # pc)
       => acked' = Append(acked, d.Tag)

\* every field of the appended record has the zero value of its type
C19_AppendsZeroRecord ==
    [][UndecodableStep(ZeroApplication, ZeroApplicationKeyMapping)]_vars

(***************************************************************************)
(* C19, amended.  As C19, where the record the Application handler appends *)
(* (to the application or to the key-mapping collection) has the zero      *)
(* value in every field but the tenant id, which is -1; the records the    *)
(* Subscription and Scope handlers append are zero-valued in every field.  *)
(***************************************************************************)
C19_AppendsDefaultRecord ==
    [][UndecodableStep([ZeroApplication EXCEPT !.TenantID = -1],
                       [ZeroApplicationKeyMapping EXCEPT !.TenantID = -1])]_vars

\* after a deploy, an application event with an undecodable payload has
\* added the default application record and has been acknowledged
C19_Witness ==
    /\ Len(processed) = 2
    /\ processed[2].handler = "handleApplicationEvents"
    /\ ~processed[2].data.json
    /\ processed[2].eventType # <<>>
    /\ Len(APIList) = 1
    /\ AppList = <<[ZeroApplication EXCEPT !.TenantID = -1]>>
    /\ acked = <<1, 2>>


(***************************************************************************)
(* C20.  Both timestamp maps, APIListTimeStamp and                         *)
(* ApplicationListTimeStamp, are empty in every reachable state, and the   *)
(* old timestamp the removal decision of an API event uses is always 0.    *)
(***************************************************************************)
C20_TimeStampMapsEmpty ==
    /\ APIListTimeStamp = EmptyMap
    /\ ApplicationListTimeStamp = EmptyMap
    /\ (pc = "route" /\ Handler(eventType) = "handleAPIEvents")
       => LET apiEvent == UnmarshalAPIEvent(decodedByte)
          IN  \A scan \in TimeStampScan(APIListTimeStamp, apiEvent.APIID,
                                        apiEvent.Event.TimeStamp) :
                  scan.oldTimeStamp = 0

\* a deploy with timestamp 1 and then a remove of the same identifier have
\* been handled, and the map still records nothing
C20_Witness ==
    /\ pc = "ack"
    /\ Len(processed) = 2
    /\ IsAPIEvent(1, deployAPIToGateway)
    /\ IsAPIEvent(2, removeAPIFromGateway)
    /\ EventAPIID(1) = EventAPIID(2)
    /\ EventTimeStamp(1) = 1
    /\ APIListTimeStamp = EmptyMap

====
